---------------------------- MODULE Spec2Model ----------------------------
(***************************************************************************)
(* Model of the Andiron FX service: the TTL cache and the Frankfurter      *)
(* client of fx_client.py, the calculator of calculator.py and the         *)
(* /summary handler of main.py.                                            *)
(*                                                                         *)
(* Python strings are sequences of one-character strings, so that an       *)
(* f-string is a concatenation and strptime is a parser.  A JSON document  *)
(* is a record; Python's None is the record None.  A coroutine is split at *)
(* its only await (the upstream HTTP request): everything before it is one *)
(* action, everything after it another.                                    *)
(***************************************************************************)
EXTENDS Integers, Sequences, FiniteSets, TLC

(***************************************************************************)
(* Bounds of the model.                                                    *)
(***************************************************************************)
\* number of request tasks that may be in flight together
NumTasks == 2
\* the clock runs from 0 to MaxTime
MaxTime == 2
\* number of client or endpoint invocations in one behaviour
MaxCalls == 2
\* number of dates of a rate series handed to the calculator
MaxDates == 3
\* number of operations on the cache called on its own
MaxOps == 3

\* cache_ttl, in clock units (main.py:34 sets 300 s; one unit is 150 s)
TTL == 2

Tasks == 1..NumTasks

(***************************************************************************)
(* Strings.                                                                *)
(***************************************************************************)
Digits == <<"0", "1", "2", "3", "4", "5", "6", "7", "8", "9">>

IsDigit(c) == \E i \in 1..10 : Digits[i] = c

DigitVal(c) == (CHOOSE i \in 1..10 : Digits[i] = c) - 1

\* code point order of the characters the model uses
Ord(c) ==
    CASE c = " " -> 32
      [] c = "-" -> 45
      [] c = "/" -> 47
      [] IsDigit(c) -> 48 + DigitVal(c)
      [] c = ":" -> 58
      [] OTHER -> 100

\* Python's str.__lt__: lexicographic by code point
RECURSIVE StrLess(_, _)
StrLess(a, b) ==
    IF b = <<>> THEN FALSE
    ELSE IF a = <<>> THEN TRUE
    ELSE IF Head(a) = Head(b) THEN StrLess(Tail(a), Tail(b))
    ELSE Ord(Head(a)) < Ord(Head(b))

S_range == <<"r", "a", "n", "g", "e">>
S_latest == <<"l", "a", "t", "e", "s", "t">>
S_EUR == <<"E", "U", "R">>
S_USD == <<"U", "S", "D">>
Colon == <<":">>


(***************************************************************************)
(* Python values.  A JSON document (what response.json() or json.load      *)
(* returns) is a record: its type, its number of top-level members or      *)
(* elements, whether 'rates' is one of them, and the rates mapping as the  *)
(* sequence of its items in document order.  The value a date maps to is   *)
(* either a currency-keyed bundle or a bare value.                         *)
(***************************************************************************)
\* Python's None
None == [type |-> "none", size |-> 0, hasRates |-> FALSE, rates |-> <<>>]

Num(n) == [t |-> "num", n |-> n]
\* a JSON null
PyNone == [t |-> "none", n |-> 0]
\* a JSON string where a number is expected
PyStr == [t |-> "str", n |-> 0]
\* the bundle has no 'USD' member
Missing == [t |-> "missing", n |-> 0]

Bundle(date, usd) == [date |-> date, bundle |-> TRUE, usd |-> usd]
Bare(date, v) == [date |-> date, bundle |-> FALSE, usd |-> v]

Obj(size, hasRates, rates) ==
    [type |-> "object", size |-> size, hasRates |-> hasRates, rates |-> rates]

\* Python's truth value of a document: None and empty containers are false
Truthy(v) == v.type # "none" /\ v.size > 0

(***************************************************************************)
(* FXCache (fx_client.py).  self.cache is a function from the keys present *)
(* to (timestamp, value).                                                  *)
(***************************************************************************)
EmptyCache == [k \in {} |-> [ts |-> 0, value |-> None]]

\* mutant: the entry is still served when its age equals the TTL
ExpiredLate(entry, t) == ~(t - entry.ts <= TTL)

Expired(entry, t) == ~(t - entry.ts < TTL)

\* mutant: FXCache.get removes every expired entry it meets
FXCache_get_sweeping(c, key, t) ==
    LET kept == [k \in {j \in DOMAIN c : ~Expired(c[j], t)} |-> c[k]]
    IN  [value |-> IF key \in DOMAIN kept THEN kept[key].value ELSE None,
         cache |-> kept]

\* FXCache.get: the value returned and the cache it leaves
FXCache_get(c, key, t) ==
    IF key \in DOMAIN c
    THEN IF ~Expired(c[key], t)
         THEN [value |-> c[key].value, cache |-> c]
         ELSE [value |-> None,
               cache |-> [k \in DOMAIN c \ {key} |-> c[k]]]
    ELSE [value |-> None, cache |-> c]

\* mutant: a set on an existing key replaces the value and keeps the
\* timestamp
FXCache_set_keeping_timestamp(c, key, value, t) ==
    [k \in DOMAIN c \cup {key} |->
        IF k = key
        THEN [ts |-> IF key \in DOMAIN c THEN c[key].ts ELSE t, value |-> value]
        ELSE c[k]]

\* mutant: an existing entry is kept (setdefault instead of assignment)
FXCache_setdefault(c, key, value, t) ==
    IF key \in DOMAIN c THEN c
    ELSE [k \in DOMAIN c \cup {key} |->
            IF k = key THEN [ts |-> t, value |-> value] ELSE c[k]]

\* FXCache.set
FXCache_set(c, key, value, t) ==
    [k \in DOMAIN c \cup {key} |->
        IF k = key THEN [ts |-> t, value |-> value] ELSE c[k]]

(***************************************************************************)
(* FXClient (fx_client.py).                                                *)
(***************************************************************************)
\* f"range:{start_date}:{end_date}:{base}:{symbols}"
range_cache_key(start, end, base, symbols) ==
    S_range \o Colon \o start \o Colon \o end \o Colon \o base \o Colon \o symbols

\* f"latest:{base}:{symbols}"
latest_cache_key(base, symbols) ==
    S_latest \o Colon \o base \o Colon \o symbols

\* what the await of self.client.get(...), raise_for_status() and
\* response.json() can do: deliver a parsed body, or raise
UpstreamErrors == {"network", "timeout", "status", "notjson"}

\* the state of data/sample_fx.json: "ok" holds a JSON document, "missing"
\* makes open() raise (no such file, or no permission to read it), "notjson"
\* makes json.load raise
FileStates == {"ok", "missing", "notjson"}

Returned(doc) == [exc |-> "none", doc |-> doc]
Raised(exc) == [exc |-> exc, doc |-> None]

\* FXClient._load_fallback: open + json.load, any exception becomes ValueError
_load_fallback(file) ==
    IF file.state = "ok" THEN Returned(file.doc) ELSE Raised("ValueError")

(***************************************************************************)
(* Arithmetic.  A raw rate is an integer number of 10^-7 units, a rounded  *)
(* rate an integer number of 10^-6 units and a percentage an integer       *)
(* number of 10^-4 units, so that round(x, 6) and round(x, 4) are real     *)
(* roundings.  Binary floating point error is not modelled.                *)
(***************************************************************************)
Abs(n) == IF n < 0 THEN -n ELSE n

\* q, r after k more decimal digits of the long division by b
RECURSIVE LongDiv(_, _, _, _)
LongDiv(q, r, b, k) ==
    IF k = 0 THEN [q |-> q, r |-> r]
    ELSE LongDiv(q * 10 + ((r * 10) \div b), (r * 10) % b, b, k - 1)

\* round((n / d) * 10^k) to the nearest integer, ties to even (Python's round)
RoundDiv(n, d, k) ==
    LET a == Abs(n)
        b == Abs(d)
        x == LongDiv(a \div b, a % b, b, k)
        m == IF 2 * x.r > b THEN x.q + 1
             ELSE IF 2 * x.r < b THEN x.q
             ELSE IF x.q % 2 = 0 THEN x.q ELSE x.q + 1
    IN  IF (n < 0) = (d < 0) THEN m ELSE -m

\* round(rate, 6) of a raw rate
Round6(raw) == RoundDiv(raw, 10, 0)

NoValue == [some |-> FALSE, v |-> 0]
Some(v) == [some |-> TRUE, v |-> v]

(***************************************************************************)
(* FXCalculator (calculator.py).                                           *)
(***************************************************************************)
\* mutant: no guard on old_value
_safe_pct_change_unguarded(old, new) ==
    [some |-> TRUE, n |-> (new - old) * 100, d |-> old]

\* _safe_pct_change, not yet rounded: the quotient ((new - old) / old) * 100
\* as numerator and denominator, or None when old_value == 0
_safe_pct_change(old, new) ==
    IF old = 0 THEN [some |-> FALSE, n |-> 0, d |-> 1]
    ELSE [some |-> TRUE, n |-> (new - old) * 100, d |-> old]

\* round(pct_change, 4) if pct_change is not None else None
Round4(p) == IF p.some THEN Some(RoundDiv(p.n, p.d, 4)) ELSE NoValue

\* the division of _safe_pct_change raises ZeroDivisionError
DivisionByZero(p) == p.some /\ p.d = 0

\* mutant: sorted(rates.keys(), reverse=True)
RECURSIVE sorted_dates_descending(_)
sorted_dates_descending(dates) ==
    IF dates = {} THEN <<>>
    ELSE LET most == CHOOSE x \in dates : \A y \in dates \ {x} : StrLess(y, x)
         IN  <<most>> \o sorted_dates_descending(dates \ {most})

\* sorted(rates.keys()): the dates in ascending string order
RECURSIVE sorted_dates(_)
sorted_dates(dates) ==
    IF dates = {} THEN <<>>
    ELSE LET least == CHOOSE x \in dates : \A y \in dates \ {x} : StrLess(x, y)
         IN  <<least>> \o sorted_dates(dates \ {least})

DatesOf(rates) == {rates[i].date : i \in 1..Len(rates)}

\* rates[date]
ItemOf(rates, date) == rates[CHOOSE i \in 1..Len(rates) : rates[i].date = date]

\* mutant: date_rates.get('USD', 0)
CurrentRateDefaultZero(item) ==
    IF item.bundle /\ item.usd.t = "missing" THEN Num(0) ELSE item.usd

\* date_rates.get('USD') for a bundle, date_rates itself otherwise
CurrentRate(item) ==
    IF item.bundle /\ item.usd.t = "missing" THEN PyNone ELSE item.usd

\* the for loop of calculate_daily_metrics, from position i of sorted_dates
RECURSIVE DailyLoop(_, _, _, _, _)
DailyLoop(rates, sorted, i, metrics, previous) ==
    IF i > Len(sorted) THEN [exc |-> "none", metrics |-> metrics]
    ELSE LET date == sorted[i]
             cur == CurrentRate(ItemOf(rates, date))
         IN  IF cur.t = "none"
             THEN DailyLoop(rates, sorted, i + 1, metrics, previous)
             ELSE IF cur.t # "num"
             THEN [exc |-> "TypeError", metrics |-> <<>>]
             ELSE LET change == IF previous.some
                                THEN _safe_pct_change(previous.v, cur.n)
                                ELSE [some |-> FALSE, n |-> 0, d |-> 1]
                      m == [date |-> date, rate |-> Round6(cur.n),
                            pct_change |-> Round4(change)]
                  IN  IF DivisionByZero(change)
                      THEN [exc |-> "ZeroDivisionError", metrics |-> <<>>]
                      ELSE DailyLoop(rates, sorted, i + 1,
                                     Append(metrics, m), Some(cur.n))

\* FXCalculator.calculate_daily_metrics
calculate_daily_metrics(rates_data) ==
    IF ~Truthy(rates_data) \/ ~rates_data.hasRates
    THEN [exc |-> "none", metrics |-> <<>>]
    ELSE DailyLoop(rates_data.rates, sorted_dates(DatesOf(rates_data.rates)),
                   1, <<>>, NoValue)

RECURSIVE SumRates(_, _)
SumRates(metrics, i) ==
    IF i > Len(metrics) THEN 0 ELSE metrics[i].rate + SumRates(metrics, i + 1)

NoTotals ==
    [start_rate |-> NoValue, end_rate |-> NoValue,
     total_pct_change |-> NoValue, mean_rate |-> NoValue]

\* mutant: the mean of the first and the last rate only
calculate_totals_ends(daily_metrics) ==
    IF daily_metrics = <<>>
    THEN [exc |-> "none", totals |-> NoTotals]
    ELSE LET start_rate == daily_metrics[1].rate
             end_rate == daily_metrics[Len(daily_metrics)].rate
         IN  [exc |-> "none",
              totals |->
                [start_rate |-> Some(start_rate),
                 end_rate |-> Some(end_rate),
                 total_pct_change |->
                     Round4(_safe_pct_change(start_rate, end_rate)),
                 mean_rate |-> Some(RoundDiv(start_rate + end_rate, 2, 0))]]

\* FXCalculator.calculate_totals: the dict it returns, or the exception
calculate_totals(daily_metrics) ==
    IF daily_metrics = <<>>
    THEN [exc |-> "none", totals |-> NoTotals]
    ELSE LET start_rate == daily_metrics[1].rate
             end_rate == daily_metrics[Len(daily_metrics)].rate
             change == _safe_pct_change(start_rate, end_rate)
         IN  IF DivisionByZero(change)
             THEN [exc |-> "ZeroDivisionError", totals |-> NoTotals]
             ELSE [exc |-> "none",
                   totals |->
                     [start_rate |-> Some(start_rate),
                      end_rate |-> Some(end_rate),
                      total_pct_change |-> Round4(change),
                      mean_rate |-> Some(RoundDiv(SumRates(daily_metrics, 1),
                                                  Len(daily_metrics), 0))]]

\* mutant: 'daily' is included whatever the breakdown
format_response_with_daily(daily_metrics, totals, breakdown, start_date, end_date) ==
    [keys |-> {"base", "symbol", "start_date", "end_date", "breakdown",
               "totals", "daily"},
     base |-> S_EUR, symbol |-> S_USD,
     start_date |-> start_date, end_date |-> end_date,
     breakdown |-> breakdown, totals |-> totals, daily |-> daily_metrics]

\* FXCalculator.format_response: the keys of the dict and their values
format_response(daily_metrics, totals, breakdown, start_date, end_date) ==
    [keys |-> {"base", "symbol", "start_date", "end_date", "breakdown", "totals"}
                \cup (IF breakdown = "day" THEN {"daily"} ELSE {}),
     base |-> S_EUR, symbol |-> S_USD,
     start_date |-> start_date, end_date |-> end_date,
     breakdown |-> breakdown, totals |-> totals,
     daily |-> IF breakdown = "day" THEN daily_metrics ELSE <<>>]

NoReport ==
    [keys |-> {}, base |-> <<>>, symbol |-> <<>>, start_date |-> <<>>,
     end_date |-> <<>>, breakdown |-> "", totals |-> NoTotals, daily |-> <<>>]

(***************************************************************************)
(* get_summary (main.py): validation.                                      *)
(***************************************************************************)
\* the character at position i, "" past the end
At(s, i) == IF i >= 1 /\ i <= Len(s) THEN s[i] ELSE ""

NonZeroDigit(c) == IsDigit(c) /\ c # "0"

LeapYear(y) == (y % 4 = 0 /\ y % 100 # 0) \/ y % 400 = 0

DaysInMonth(y, m) ==
    IF m = 2 THEN (IF LeapYear(y) THEN 29 ELSE 28)
    ELSE IF m \in {4, 6, 9, 11} THEN 30 ELSE 31

NotADate == [ok |-> FALSE, y |-> 0, m |-> 0, d |-> 0]

\* datetime.strptime(s, "%Y-%m-%d"): the directive patterns
\*   %Y (\d\d\d\d)   %m (1[0-2]|0[1-9]|[1-9])
\*   %d (3[01]|[12]\d|0[1-9]|[1-9]| [1-9])
\* matched from the start of s, all of s consumed, and the fields a date of
\* the calendar; ok is FALSE where strptime raises ValueError
strptime(s) ==
    LET yearOk == \A i \in 1..4 : IsDigit(At(s, i))
        mlen == IF At(s, 6) = "1" /\ At(s, 7) \in {"0", "1", "2"} /\ At(s, 8) = "-"
                  THEN 2
                ELSE IF At(s, 6) = "0" /\ NonZeroDigit(At(s, 7)) /\ At(s, 8) = "-"
                  THEN 2
                ELSE IF NonZeroDigit(At(s, 6)) /\ At(s, 7) = "-"
                  THEN 1
                ELSE 0
        p == 7 + mlen
        dlen == IF At(s, p) = "3" /\ At(s, p + 1) \in {"0", "1"} THEN 2
                ELSE IF At(s, p) \in {"1", "2"} /\ IsDigit(At(s, p + 1)) THEN 2
                ELSE IF At(s, p) = "0" /\ NonZeroDigit(At(s, p + 1)) THEN 2
                ELSE IF NonZeroDigit(At(s, p)) THEN 1
                ELSE IF At(s, p) = " " /\ NonZeroDigit(At(s, p + 1)) THEN 2
                ELSE 0
    IN  IF ~(yearOk /\ At(s, 5) = "-" /\ mlen > 0 /\ dlen > 0
             /\ Len(s) = p + dlen - 1)
        THEN NotADate
        ELSE LET y == 1000 * DigitVal(s[1]) + 100 * DigitVal(s[2])
                        + 10 * DigitVal(s[3]) + DigitVal(s[4])
                 m == IF mlen = 2 THEN 10 * DigitVal(s[6]) + DigitVal(s[7])
                      ELSE DigitVal(s[6])
                 d == IF dlen = 1 THEN DigitVal(s[p])
                      ELSE IF s[p] = " " THEN DigitVal(s[p + 1])
                      ELSE 10 * DigitVal(s[p]) + DigitVal(s[p + 1])
             IN  IF y >= 1 /\ d <= DaysInMonth(y, m)
                 THEN [ok |-> TRUE, y |-> y, m |-> m, d |-> d]
                 ELSE NotADate

\* start_dt > end_dt
DateGreater(a, b) ==
    \/ a.y > b.y
    \/ a.y = b.y /\ a.m > b.m
    \/ a.y = b.y /\ a.m = b.m /\ a.d > b.d

\* mutant: the order of the two dates is not checked
ValidateRequestNoOrder(start, end, breakdown) ==
    IF ~strptime(start).ok \/ ~strptime(end).ok THEN 400
    ELSE IF breakdown \notin {"day", "none"} THEN 400
    ELSE 0

\* the two validation blocks of get_summary: 400 where one raises, 0 otherwise
ValidateRequest(start, end, breakdown) ==
    LET start_dt == strptime(start)
        end_dt == strptime(end)
    IN  IF ~start_dt.ok \/ ~end_dt.ok THEN 400
        ELSE IF DateGreater(start_dt, end_dt) THEN 400
        ELSE IF breakdown \notin {"day", "none"} THEN 400
        ELSE 0

\* mutant: every exception is answered with the generic server error
ExceptStatusGeneric(exc) == 500

\* the except clauses of get_summary's second try block, for an exception
\* raised inside it (HTTPException is an Exception, not a ValueError)
ExceptStatus(exc) == IF exc = "ValueError" THEN 503 ELSE 500

NoResponse == [status |-> 0, report |-> NoReport]

\* get_summary from the return of get_range on: the response
SummaryResponse(ret, start, end, breakdown) ==
    IF ret.exc # "none"
    THEN [status |-> ExceptStatus(ret.exc), report |-> NoReport]
    ELSE LET dm == calculate_daily_metrics(ret.doc)
         IN  IF dm.exc # "none"
             THEN [status |-> ExceptStatus(dm.exc), report |-> NoReport]
             ELSE IF dm.metrics = <<>>
             THEN [status |-> ExceptStatus("HTTPException"), report |-> NoReport]
             ELSE LET tt == calculate_totals(dm.metrics)
                  IN  IF tt.exc # "none"
                      THEN [status |-> ExceptStatus(tt.exc), report |-> NoReport]
                      ELSE [status |-> 200,
                            report |-> format_response(dm.metrics, tt.totals,
                                                       breakdown, start, end)]

(***************************************************************************)
(* Inputs: the strings callers pass and the documents the upstream         *)
(* provider and the snapshot file can hold.                                *)
(***************************************************************************)
\* "2025-01-01", "2025-01-02", "2025-1-2" and "2025-02-30"
D0101 == <<"2", "0", "2", "5", "-", "0", "1", "-", "0", "1">>
D0102 == <<"2", "0", "2", "5", "-", "0", "1", "-", "0", "2">>
D12 == <<"2", "0", "2", "5", "-", "1", "-", "2">>
D0230 == <<"2", "0", "2", "5", "-", "0", "2", "-", "3", "0">>

\* {"base": "EUR", "rates": {"2025-01-01": {"USD": 1.1}, "2025-01-02": {"USD": 1.21}}}
DocA == Obj(2, TRUE, <<Bundle(D0101, Num(11000000)), Bundle(D0102, Num(12100000))>>)
\* the snapshot the generation script saved
DocSample == Obj(2, TRUE, <<Bundle(D0101, Num(10300000))>>)
\* {}
DocEmpty == Obj(0, FALSE, <<>>)
\* {"message": "not found"}
DocMessage == Obj(1, FALSE, <<>>)
\* {"rates": {"2025-01-01": {"GBP": 0.83}, "2025-01-02": null}}
DocNoUSD == Obj(1, TRUE, <<Bundle(D0101, Missing), Bare(D0102, PyNone)>>)
\* {"rates": {"2025-01-01": {"USD": "1.1"}}}
DocStrRate == Obj(1, TRUE, <<Bundle(D0101, PyStr)>>)

\* the bodies a direct caller of the client is answered with
UpstreamDocs == {DocA, DocEmpty, DocMessage}
\* the bodies and failures a request to the endpoint is answered with
SummaryDocs == {DocA, DocEmpty, DocNoUSD, DocStrRate}
SummaryErrors == {"timeout", "status"}

SnapshotFiles ==
    {[state |-> "ok", doc |-> d] : d \in {DocSample, DocEmpty}}
    \cup {[state |-> st, doc |-> None] : st \in FileStates \ {"ok"}}

SummaryRequests ==
    {[start |-> D0101, end |-> D0102, breakdown |-> "day"],
     [start |-> D0101, end |-> D0102, breakdown |-> "none"],
     [start |-> D0101, end |-> D12, breakdown |-> "day"],
     [start |-> D0102, end |-> D0101, breakdown |-> "day"],
     [start |-> D0230, end |-> D0102, breakdown |-> "none"],
     [start |-> D0101, end |-> D0102, breakdown |-> "week"]}

RangeArgs ==
    {[start |-> <<"a", ":", "b">>, end |-> <<"c">>, base |-> S_EUR, symbols |-> S_USD],
     [start |-> <<"a">>, end |-> <<"b", ":", "c">>, base |-> S_EUR, symbols |-> S_USD]}

LatestArgs ==
    {[base |-> S_EUR \o Colon \o S_USD, symbols |-> <<"X">>],
     [base |-> S_EUR, symbols |-> S_USD \o Colon \o <<"X">>]}

\* "2024-12-31" and "2025-02-01"
D1231 == <<"2", "0", "2", "4", "-", "1", "2", "-", "3", "1">>
D0201 == <<"2", "0", "2", "5", "-", "0", "2", "-", "0", "1">>

\* the dates a rate series handed to the calculator is keyed by, across a
\* year end and a month end
DatePool == <<D0102, D1231, D0101, D0201>>
CalcDates ==
    {DatePool[i] : i \in {j \in 1..Len(DatePool) : j <= MaxDates}}

\* what rates[date] can be: a bundle with a USD rate of 0, 0.0000004 (not
\* zero, rounded to 0.0), 0.0000015 (a rounding tie), a bare 0.000011, a
\* bundle without USD, a null
CalcItems ==
    {Bundle(d, Num(0)) : d \in CalcDates}
    \cup {Bundle(d, Num(4)) : d \in CalcDates}
    \cup {Bundle(d, Num(15)) : d \in CalcDates}
    \cup {Bare(d, Num(110)) : d \in CalcDates}
    \cup {Bundle(d, Missing) : d \in CalcDates}
    \cup {Bare(d, PyNone) : d \in CalcDates}

\* the 'rates' dicts: up to MaxDates items in any insertion order, their
\* dates distinct
CalcSeries ==
    UNION {{s \in [1..n -> CalcItems] :
              \A i, j \in 1..n : i # j => s[i].date # s[j].date} :
           n \in 0..MaxDates}

\* the documents handed to calculate_daily_metrics: None, {}, a document
\* without 'rates', and one for each 'rates' dict
CalcDocs ==
    {None, DocEmpty, DocMessage} \cup {Obj(1, TRUE, s) : s \in CalcSeries}

Breakdowns == {"day", "none"}

(***************************************************************************)
(* State.                                                                  *)
(***************************************************************************)
VARIABLES
    now,      \* datetime.now(), in clock units
    cache,    \* fx_client.cache.cache
    file,     \* data/sample_fx.json
    task,     \* the coroutines: idle, or suspended at the upstream request
    calls,    \* invocations started
    requests, \* upstream requests issued
    origin,   \* for each cache entry, the query whose invocation stored it
    last,     \* the invocation that completed last, as its caller saw it
    calc      \* the calculator called on its own: its input and its results

vars == <<now, cache, file, task, calls, requests, origin, last, calc>>

NoQuery ==
    [op |-> "none", start |-> <<>>, end |-> <<>>, base |-> <<>>, symbols |-> <<>>]

QueryOf(c) ==
    [op |-> IF c.op = "latest" THEN "latest" ELSE "range",
     start |-> c.start, end |-> c.end, base |-> c.base, symbols |-> c.symbols]

\* pc is "idle" or "awaiting"; age and from are the age and the origin of
\* the entry the lookup found (-1 and NoQuery where there was none), seen
\* is what FXCache.get returned
IdleTask ==
    [pc |-> "idle", op |-> "none", start |-> <<>>, end |-> <<>>, base |-> <<>>,
     symbols |-> <<>>, breakdown |-> "", key |-> <<>>, age |-> -1,
     from |-> NoQuery, seen |-> None]

\* looked: the cache was consulted; issued: upstream requests of this
\* invocation; upstream: "ok" or the failure; body: the document delivered;
\* loaded: _load_fallback ran; ret: what the client returned or raised;
\* resp: the HTTP response of get_summary; over: the age of the entry that
\* the cache.set of this invocation replaced (-1 where it replaced none)
NoCall ==
    [n |-> 0, op |-> "none", start |-> <<>>, end |-> <<>>, base |-> <<>>,
     symbols |-> <<>>, breakdown |-> "", key |-> <<>>, looked |-> FALSE,
     age |-> -1, from |-> NoQuery, seen |-> None, issued |-> 0,
     upstream |-> "none", body |-> None, loaded |-> FALSE,
     ret |-> Raised("none"), resp |-> NoResponse, over |-> -1]

\* pc is "none", "input", "daily", "totals" or "report": how far the
\* calculator got on rates_data
NoCalc ==
    [pc |-> "none", rates_data |-> None,
     daily |-> [exc |-> "none", metrics |-> <<>>],
     totals |-> [exc |-> "none", totals |-> NoTotals],
     breakdown |-> "", report |-> NoReport]

Init ==
    /\ now = 0
    /\ cache = EmptyCache
    /\ file \in SnapshotFiles
    /\ task = [t \in Tasks |-> IdleTask]
    /\ calls = 0
    /\ requests = 0
    /\ origin = [k \in {} |-> NoQuery]
    /\ last = NoCall
    /\ calc = NoCalc

\* a free coroutine slot: the lowest idle one (task identities are arbitrary)
CanStart(t) ==
    /\ calls < MaxCalls
    /\ task[t].pc = "idle"
    /\ \A u \in Tasks : u < t => task[u].pc # "idle"

\* if cached:
CacheHit(cached) == Truthy(cached)

\* what the caller of get_summary gets for the client's return; a direct
\* caller of the client gets no HTTP response
ResponseFor(c, ret) ==
    IF c.op = "summary"
    THEN SummaryResponse(ret, c.start, c.end, c.breakdown)
    ELSE NoResponse

\* get_range / get_latest up to the await: consult the cache under key,
\* return the cached value or issue the upstream request and suspend
Fetch(t, c, key) ==
    LET got == FXCache_get(cache, key, now)
        age == IF key \in DOMAIN cache THEN now - cache[key].ts ELSE -1
        from == IF key \in DOMAIN cache THEN origin[key] ELSE NoQuery
    IN  /\ cache' = got.cache
        /\ origin' = [k \in DOMAIN got.cache |-> origin[k]]
        /\ calls' = calls + 1
        /\ IF CacheHit(got.value)
           THEN /\ task' = task
                /\ requests' = requests
                /\ last' = [n |-> last.n + 1, op |-> c.op, start |-> c.start,
                            end |-> c.end, base |-> c.base,
                            symbols |-> c.symbols, breakdown |-> c.breakdown,
                            key |-> key, looked |-> TRUE, age |-> age,
                            from |-> from, seen |-> got.value, issued |-> 0,
                            upstream |-> "none", body |-> None,
                            loaded |-> FALSE, ret |-> Returned(got.value),
                            resp |-> ResponseFor(c, Returned(got.value)),
                            over |-> -1]
           ELSE /\ task' = [task EXCEPT ![t] =
                              [pc |-> "awaiting", op |-> c.op, start |-> c.start,
                               end |-> c.end, base |-> c.base,
                               symbols |-> c.symbols, breakdown |-> c.breakdown,
                               key |-> key, age |-> age, from |-> from,
                               seen |-> got.value]]
                /\ requests' = requests + 1
                /\ last' = last
        /\ UNCHANGED <<now, file, calc>>

(***************************************************************************)
(* Actions.                                                                *)
(***************************************************************************)
\* the clock advances
Tick ==
    /\ now < MaxTime
    /\ now' = now + 1
    /\ UNCHANGED <<cache, file, task, calls, requests, origin, last, calc>>

\* GET /summary: validate, then get_range(start, end, "EUR", "USD") up to
\* its await; a rejected request and a cache hit complete here
get_summary(t, r) ==
    /\ CanStart(t)
    /\ LET c == [op |-> "summary", start |-> r.start, end |-> r.end,
                 base |-> S_EUR, symbols |-> S_USD, breakdown |-> r.breakdown]
           status == ValidateRequest(r.start, r.end, r.breakdown)
       IN  IF status # 0
           THEN /\ calls' = calls + 1
                /\ last' = [NoCall EXCEPT
                              !.n = last.n + 1, !.op = "summary",
                              !.start = r.start, !.end = r.end,
                              !.breakdown = r.breakdown,
                              !.resp = [status |-> status, report |-> NoReport]]
                /\ UNCHANGED <<now, cache, file, task, requests, origin, calc>>
           ELSE Fetch(t, c, range_cache_key(c.start, c.end, c.base, c.symbols))

\* FXClient.get_range called directly, up to its await
get_range(t, a) ==
    /\ CanStart(t)
    /\ LET c == [op |-> "range", start |-> a.start, end |-> a.end,
                 base |-> a.base, symbols |-> a.symbols, breakdown |-> ""]
       IN  Fetch(t, c, range_cache_key(c.start, c.end, c.base, c.symbols))

\* FXClient.get_latest called directly, up to its await
get_latest(t, a) ==
    /\ CanStart(t)
    /\ LET c == [op |-> "latest", start |-> <<>>, end |-> <<>>,
                 base |-> a.base, symbols |-> a.symbols, breakdown |-> ""]
       IN  Fetch(t, c, latest_cache_key(c.base, c.symbols))

\* the invocation of task t completes: its caller sees ret
Complete(t, upstream, body, loaded, ret) ==
    LET c == task[t]
    IN  /\ last' = [n |-> last.n + 1, op |-> c.op, start |-> c.start,
                    end |-> c.end, base |-> c.base, symbols |-> c.symbols,
                    breakdown |-> c.breakdown, key |-> c.key, looked |-> TRUE,
                    age |-> c.age, from |-> c.from, seen |-> c.seen,
                    issued |-> 1, upstream |-> upstream, body |-> body,
                    loaded |-> loaded, ret |-> ret,
                    resp |-> ResponseFor(c, ret),
                    over |-> IF upstream = "ok" /\ c.key \in DOMAIN cache
                             THEN now - cache[c.key].ts ELSE -1]
        /\ task' = [task EXCEPT ![t] = IdleTask]

\* the try block after the await: raise_for_status() and response.json()
\* passed with body doc, so store it under the key and return it
StoreAndReturn(t, doc) ==
    /\ cache' = FXCache_set(cache, task[t].key, doc, now)
    /\ origin' = [k \in DOMAIN origin \cup {task[t].key} |->
                    IF k = task[t].key THEN QueryOf(task[t]) ELSE origin[k]]
    /\ Complete(t, "ok", doc, FALSE, Returned(doc))

\* mutant: the upstream error reaches the caller
FallBackRaising(t, err) ==
    /\ Complete(t, err, None, FALSE, Raised("HTTPError"))
    /\ UNCHANGED <<cache, origin>>

\* mutant: the fallback snapshot is stored under the key like a response
FallBackCaching(t, err) ==
    /\ Complete(t, err, None, TRUE, _load_fallback(file))
    /\ cache' = FXCache_set(cache, task[t].key, file.doc, now)
    /\ origin' = [k \in DOMAIN origin \cup {task[t].key} |->
                    IF k = task[t].key THEN QueryOf(task[t]) ELSE origin[k]]

\* the except block: return the fallback snapshot, or raise ValueError where
\* it cannot be loaded
FallBack(t, err) ==
    /\ Complete(t, err, None, TRUE, _load_fallback(file))
    /\ UNCHANGED <<cache, origin>>

\* the await returns a 2xx response whose body parses as the document doc
\* (then, in get_summary, the report is computed)
UpstreamSuccess(t, doc) ==
    /\ task[t].pc = "awaiting"
    /\ StoreAndReturn(t, doc)
    /\ UNCHANGED <<now, file, calls, requests, calc>>

\* mutant: a failed request is handled only once no other request is in
\* flight
UpstreamFailureSerial(t, err) ==
    /\ task[t].pc = "awaiting"
    /\ \A u \in Tasks \ {t} : task[u].pc # "awaiting"
    /\ FallBack(t, err)
    /\ UNCHANGED <<now, file, calls, requests, calc>>

\* the await raises (network failure, timeout), raise_for_status() raises
\* (non-2xx status) or response.json() raises (the body is not JSON)
UpstreamFailure(t, err) ==
    /\ task[t].pc = "awaiting"
    /\ FallBack(t, err)
    /\ UNCHANGED <<now, file, calls, requests, calc>>

\* the client, called directly
Next ==
    \/ Tick
    \/ \E t \in Tasks : \E a \in RangeArgs : get_range(t, a)
    \/ \E t \in Tasks : \E a \in LatestArgs : get_latest(t, a)
    \/ \E t \in Tasks : \E doc \in UpstreamDocs : UpstreamSuccess(t, doc)
    \/ \E t \in Tasks : \E err \in UpstreamErrors : UpstreamFailure(t, err)

Spec == Init /\ [][Next]_vars

\* the service: the client is called by the /summary handler only
NextSummary ==
    \/ Tick
    \/ \E t \in Tasks : \E r \in SummaryRequests : get_summary(t, r)
    \/ \E t \in Tasks : \E doc \in SummaryDocs : UpstreamSuccess(t, doc)
    \/ \E t \in Tasks : \E err \in SummaryErrors : UpstreamFailure(t, err)

SpecSummary == Init /\ [][NextSummary]_vars

\* the client under its scheduling: httpx.AsyncClient(timeout=10.0) makes
\* the await raise once the timeout has elapsed, so a suspended invocation
\* whose request is not answered otherwise is resumed by the timeout
LiveDocs == {DocA}
LiveErrors == {"timeout", "status"}

NextLive ==
    \/ Tick
    \/ \E t \in Tasks : \E a \in RangeArgs : get_range(t, a)
    \/ \E t \in Tasks : \E a \in LatestArgs : get_latest(t, a)
    \/ \E t \in Tasks : \E doc \in LiveDocs : UpstreamSuccess(t, doc)
    \/ \E t \in Tasks : \E err \in LiveErrors : UpstreamFailure(t, err)

SpecLive ==
    /\ Init
    /\ [][NextLive]_vars
    /\ \A t \in Tasks : WF_vars(UpstreamFailure(t, "timeout"))

\* FXCache.clear
FXCache_clear(c) == EmptyCache

\* the cache on its own: get, set and clear called in any order
CacheKeys ==
    {range_cache_key(D0101, D0102, S_EUR, S_USD), latest_cache_key(S_EUR, S_USD)}
CacheValues == {DocA, DocSample}

InitCache ==
    /\ now = 0
    /\ cache = EmptyCache
    /\ file = [state |-> "missing", doc |-> None]
    /\ task = [t \in Tasks |-> IdleTask]
    /\ calls = 0
    /\ requests = 0
    /\ origin = [k \in {} |-> NoQuery]
    /\ last = NoCall
    /\ calc = NoCalc

\* age of the entry under key, -1 where there is none
AgeOf(key) == IF key \in DOMAIN cache THEN now - cache[key].ts ELSE -1

\* cache.get(key): last.seen is what it returned
get(key) ==
    /\ calls < MaxOps
    /\ calls' = calls + 1
    /\ cache' = FXCache_get(cache, key, now).cache
    /\ last' = [NoCall EXCEPT !.n = last.n + 1, !.op = "get", !.key = key,
                              !.looked = TRUE, !.age = AgeOf(key),
                              !.seen = FXCache_get(cache, key, now).value]
    /\ UNCHANGED <<now, file, task, requests, origin, calc>>

\* cache.set(key, value)
set(key, value) ==
    /\ calls < MaxOps
    /\ calls' = calls + 1
    /\ cache' = FXCache_set(cache, key, value, now)
    /\ last' = [NoCall EXCEPT !.n = last.n + 1, !.op = "set", !.key = key,
                              !.age = AgeOf(key), !.body = value]
    /\ UNCHANGED <<now, file, task, requests, origin, calc>>

\* cache.clear()
clear ==
    /\ calls < MaxOps
    /\ calls' = calls + 1
    /\ cache' = FXCache_clear(cache)
    /\ last' = [NoCall EXCEPT !.n = last.n + 1, !.op = "clear"]
    /\ UNCHANGED <<now, file, task, requests, origin, calc>>

NextCache ==
    \/ Tick
    \/ \E key \in CacheKeys : get(key)
    \/ \E key \in CacheKeys : \E value \in CacheValues : set(key, value)
    \/ clear

SpecCache == InitCache /\ [][NextCache]_vars

\* the calculator on its own: calculate_daily_metrics on a document, then
\* calculate_totals on its metrics, then format_response
InitCalc ==
    /\ now = 0
    /\ cache = EmptyCache
    /\ file = [state |-> "missing", doc |-> None]
    /\ task = [t \in Tasks |-> IdleTask]
    /\ calls = 0
    /\ requests = 0
    /\ origin = [k \in {} |-> NoQuery]
    /\ last = NoCall
    /\ calc \in {[NoCalc EXCEPT !.pc = "input", !.rates_data = d] : d \in CalcDocs}

Untouched == UNCHANGED <<now, cache, file, task, calls, requests, origin, last>>

DailyMetrics ==
    /\ calc.pc = "input"
    /\ calc' = [calc EXCEPT !.pc = "daily",
                            !.daily = calculate_daily_metrics(calc.rates_data)]
    /\ Untouched

Totals ==
    /\ calc.pc = "daily"
    /\ calc.daily.exc = "none"
    /\ calc' = [calc EXCEPT !.pc = "totals",
                            !.totals = calculate_totals(calc.daily.metrics)]
    /\ Untouched

Report(breakdown) ==
    /\ calc.pc = "totals"
    /\ calc.totals.exc = "none"
    /\ calc' = [calc EXCEPT !.pc = "report", !.breakdown = breakdown,
                            !.report = format_response(calc.daily.metrics,
                                                       calc.totals.totals,
                                                       breakdown, D0101, D0102)]
    /\ Untouched

NextCalc ==
    \/ DailyMetrics
    \/ Totals
    \/ \E breakdown \in Breakdowns : Report(breakdown)

SpecCalc == InitCalc /\ [][NextCalc]_vars

(***************************************************************************)
(* Properties.                                                             *)
(***************************************************************************)
\* the steps of an invocation, as actions
Missed(t) == task[t].pc = "idle" /\ task'[t].pc = "awaiting"
Resumed(t) == task[t].pc = "awaiting" /\ task'[t].pc = "idle"
Completed == last'.n = last.n + 1
ServedFromCache == Completed /\ calls' = calls + 1 /\ last'.looked

\* the completed invocation missed the cache and its upstream request failed
UpstreamFailed == last.looked /\ last.upstream \in UpstreamErrors

\* C1: a get_range call that starts less than the TTL after a call with the
\* same parameters stored its upstream result issues no upstream request of
\* its own and returns the stored series.
C1_SecondCallServedFromCache ==
    (/\ last.op = "range"
     /\ last.looked
     /\ last.age >= 0
     /\ last.age < TTL
     /\ last.from = QueryOf(last))
    => (last.issued = 0 /\ last.ret = Returned(last.seen))

\* C2: FXCache.get returns a value only for an entry younger than the TTL;
\* an entry whose age has reached the TTL (the boundary included) is
\* reported absent and removed, and the invocation issues an upstream
\* request.
C2_NeverServedStale ==
    [][/\ \A t \in Tasks : Missed(t) =>
             LET k == task'[t].key
             IN  /\ task'[t].seen # None =>
                        (k \in DOMAIN cache /\ now - cache[k].ts < TTL)
                 /\ (k \in DOMAIN cache /\ now - cache[k].ts >= TTL) =>
                        /\ task'[t].seen = None
                        /\ k \notin DOMAIN cache'
                        /\ requests' = requests + 1
       /\ ServedFromCache =>
             LET k == last'.key
             IN  /\ k \in DOMAIN cache
                 /\ now - cache[k].ts < TTL
                 /\ last'.seen = cache[k].value
      ]_vars

\* an invocation found an entry exactly one TTL old, evicted it and went
\* upstream
C2_Witness ==
    \E t \in Tasks :
        /\ task[t].pc = "awaiting"
        /\ task[t].age = TTL
        /\ task[t].key \notin DOMAIN cache
        /\ requests = 2

\* C3: get_range and get_latest, after a cache miss and an upstream failure
\* of any kind, with a loadable snapshot: the call returns the snapshot's
\* contents and raises nothing.
C3_FallbackExact ==
    (UpstreamFailed /\ file.state = "ok")
    => (last.loaded /\ last.ret = Returned(file.doc))

C3_Witness ==
    /\ UpstreamFailed
    /\ last.op = "latest"
    /\ last.upstream = "notjson"
    /\ last.ret = Returned(DocSample)

\* C4: after an upstream failure, a snapshot that is missing, unreadable,
\* not JSON or JSON without a 'rates' member makes the call fail with
\* DataUnavailable (the ValueError of _load_fallback).
C4_MalformedSnapshotUnavailable ==
    (UpstreamFailed /\ (file.state # "ok" \/ ~file.doc.hasRates))
    => last.ret.exc = "ValueError"

\* C5: a valid /summary request whose fetch succeeded and whose daily
\* metrics are empty is answered 404.
C5_EmptyResultNotFound ==
    (/\ last.op = "summary"
     /\ last.looked
     /\ last.ret.exc = "none"
     /\ calculate_daily_metrics(last.ret.doc) = [exc |-> "none", metrics |-> <<>>])
    => last.resp.status = 404

\* C6: a valid /summary request is answered 503 exactly when the upstream
\* request failed and the snapshot could not be loaded, 500 when computing
\* the metrics raised, and with the report when a metric was derived.
C6_StatusByFailure ==
    (last.op = "summary" /\ last.looked) =>
        LET unavailable == UpstreamFailed /\ file.state # "ok"
            dm == calculate_daily_metrics(last.ret.doc)
        IN  /\ last.resp.status = 503 <=> unavailable
            /\ (~unavailable /\ dm.exc # "none") => last.resp.status = 500
            /\ (~unavailable /\ dm.exc = "none" /\ dm.metrics # <<>>) =>
                   /\ last.resp.status = 200
                   /\ "totals" \in last.resp.report.keys
                   /\ last.resp.report.totals.start_rate.some

C6_Witness ==
    /\ last.op = "summary"
    /\ last.upstream = "timeout"
    /\ file.state = "missing"
    /\ last.resp.status = 503

\* what the endpoint's contract calls a malformed request
Malformed(c) ==
    LET start_dt == strptime(c.start)
        end_dt == strptime(c.end)
    IN  \/ ~start_dt.ok
        \/ ~end_dt.ok
        \/ DateGreater(start_dt, end_dt)
        \/ c.breakdown \notin {"day", "none"}

\* C7: a /summary request with an unparsable date, start later than end or
\* an unknown breakdown is answered 400 with no cache lookup, no upstream
\* request, no fallback load and the cache unchanged.
C7_RejectedBeforeFetch ==
    [][/\ (Completed /\ last'.op = "summary" /\ Malformed(last')) =>
             /\ last'.resp.status = 400
             /\ ~last'.looked
             /\ last'.issued = 0
             /\ ~last'.loaded
             /\ cache' = cache
             /\ requests' = requests
             /\ task' = task
       /\ \A t \in Tasks :
             (Missed(t) /\ task'[t].op = "summary") => ~Malformed(task'[t])
      ]_vars

\* a request was rejected while the cache held an entry
C7_Witness ==
    /\ last.op = "summary"
    /\ last.resp.status = 400
    /\ ~last.looked
    /\ DOMAIN cache # {}

\* C8: an upstream outcome that is a failure, or a body without a 'rates'
\* member, is not stored and is answered with the fallback snapshot.
C8_MalformedBodyIsFailure ==
    (/\ last.looked
     /\ last.issued = 1
     /\ \/ last.upstream \in UpstreamErrors
        \/ ~(last.body.type = "object" /\ last.body.hasRates))
    => (last.loaded /\ last.ret = _load_fallback(file))

\* C9: the entry a lookup finds under a query's key was stored by the same
\* query (type, start, end, base, quote): distinct queries have distinct keys.
C9_KeyInjective ==
    (last.looked /\ last.age >= 0) => last.from = QueryOf(last)

\* C10: a lookup returns absent or the whole value of the entry under its
\* key; every miss issues its own upstream request whatever is in flight; an
\* entry is created or changed only by an invocation for that key whose
\* upstream request succeeded, and then holds the whole body it was given.
C10_AtomicCacheAccess ==
    [][/\ \A t \in Tasks : Missed(t) =>
             /\ \/ task'[t].seen = None
                \/ /\ task'[t].key \in DOMAIN cache
                   /\ task'[t].seen = cache[task'[t].key].value
             /\ requests' = requests + 1
       /\ ServedFromCache =>
             /\ last'.key \in DOMAIN cache
             /\ last'.seen = cache[last'.key].value
       /\ \A k \in DOMAIN cache' :
             (k \notin DOMAIN cache \/ cache'[k] # cache[k]) =>
                 \E t \in Tasks :
                     /\ Resumed(t)
                     /\ task[t].key = k
                     /\ last'.upstream = "ok"
                     /\ cache'[k] = [ts |-> now, value |-> last'.body]
       /\ \A t \in Tasks : (Resumed(t) /\ last'.upstream = "ok") =>
             cache'[task[t].key] = [ts |-> now, value |-> last'.body]
      ]_vars

\* two invocations missed on the same key; one has stored its body over an
\* entry and the other is still suspended
C10_Witness ==
    \E t \in Tasks :
        /\ task[t].pc = "awaiting"
        /\ task[t].age = -1
        /\ task[t].key = last.key
        /\ last.upstream = "ok"
        /\ last.age = -1
        /\ cache[last.key].value = last.body

(***************************************************************************)
(* The calculator (SpecCalc).                                              *)
(***************************************************************************)
\* the input 'rates' dict, its dates, and the metrics computed from it
InRates == calc.rates_data.rates
Metrics == calc.daily.metrics
DailyDone == calc.pc \in {"daily", "totals", "report"}
TotalsDone == calc.pc \in {"totals", "report"}

\* the dates that carry a USD rate
Quoted(rates) == {d \in DatesOf(rates) : ItemOf(rates, d).usd.t = "num"}

\* the rate of a quoted date as it came in, before any rounding
RawRate(rates, date) == ItemOf(rates, date).usd.n

\* p is the value x = num / den rounded to the nearest integer
Nearest(p, num, den) == 2 * Abs(p * den - num) <= Abs(den)

\* C11: zero-rate guard.  In the daily metrics, whenever the rate of the
\* previous emitted date is exactly zero the percentage change is absent; in
\* the totals, whenever start_rate is zero total_pct_change is absent; and
\* neither operation raises ZeroDivisionError, for any input series.  (The
\* guard tests the rate before rounding: the rates of the model are exact
\* decimals, so a quotient is infinite or undefined only where the divisor
\* is zero.)
C11_ZeroRateGuard ==
    /\ DailyDone =>
         /\ calc.daily.exc # "ZeroDivisionError"
         /\ \A i \in 2..Len(Metrics) :
              RawRate(InRates, Metrics[i - 1].date) = 0
                  => ~Metrics[i].pct_change.some
    /\ TotalsDone =>
         /\ calc.totals.exc # "ZeroDivisionError"
         /\ calc.totals.totals.start_rate = Some(0)
                => ~calc.totals.totals.total_pct_change.some

\* a zero rate followed by a nonzero rate: no percentage change for the
\* second date, and no total percentage change
C11_Witness ==
    /\ calc.pc = "totals"
    /\ Len(Metrics) = 2
    /\ RawRate(InRates, Metrics[1].date) = 0
    /\ Metrics[2].rate # 0
    /\ ~Metrics[2].pct_change.some
    /\ calc.totals.totals.end_rate = Some(Metrics[2].rate)
    /\ ~calc.totals.totals.total_pct_change.some

\* the 'rates' dict without the dates that carry no USD rate
RECURSIVE OnlyQuoted(_)
OnlyQuoted(rates) ==
    IF rates = <<>> THEN <<>>
    ELSE (IF rates[1].usd.t = "num" THEN <<rates[1]>> ELSE <<>>)
             \o OnlyQuoted(Tail(rates))

\* C12: a date whose bundle lacks the quote currency emits no metric and
\* leaves the chain untouched (the metrics are those of the series without
\* that date); each emitted metric's percentage change is computed against
\* the rate of the immediately preceding emitted date; and the percentage
\* change is absent exactly for the first emitted date and for dates whose
\* preceding emitted date has a rate of zero.
C12_SkippedDatesLeaveChain ==
    DailyDone /\ calc.rates_data.hasRates =>
        /\ \A i \in 1..Len(Metrics) : Metrics[i].date \in Quoted(InRates)
        /\ calc.daily =
             calculate_daily_metrics(Obj(1, TRUE, OnlyQuoted(InRates)))
        /\ \A i \in 1..Len(Metrics) :
             LET cur == RawRate(InRates, Metrics[i].date)
                 prev == IF i > 1 THEN RawRate(InRates, Metrics[i - 1].date) ELSE 0
                 pct == Metrics[i].pct_change
             IN  /\ ~pct.some <=> (i = 1 \/ prev = 0)
                 /\ pct.some => Nearest(pct.v, (cur - prev) * 1000000, prev)

\* three dates, the middle one without a USD rate: the third date's
\* percentage change is taken from the first date's rate
C12_Witness ==
    /\ calc.pc = "daily"
    /\ Len(InRates) = 3
    /\ Len(Metrics) = 2
    /\ \E d \in DatesOf(InRates) \ Quoted(InRates) :
         /\ StrLess(Metrics[1].date, d)
         /\ StrLess(d, Metrics[2].date)
    /\ Metrics[2].pct_change.some
    /\ Metrics[2].pct_change.v # 0

\* calendar order of two ISO dates
Before(a, b) == DateGreater(strptime(b), strptime(a))

\* C13: for every input series, in any key order, the output of
\* calculate_daily_metrics is no longer than the number of input dates (it
\* has one metric for each date carrying a quote-currency rate), its dates
\* are strictly increasing in calendar order, each output date is an input
\* date, and an empty input yields an empty sequence.
C13_OutputOrderedSubset ==
    DailyDone =>
        /\ calc.daily.exc = "none"
        /\ Len(Metrics) <= Cardinality(DatesOf(InRates))
        /\ Len(Metrics) = Cardinality(Quoted(InRates))
        /\ \A i \in 1..Len(Metrics) : Metrics[i].date \in DatesOf(InRates)
        /\ \A i \in 1..(Len(Metrics) - 1) :
             Before(Metrics[i].date, Metrics[i + 1].date)
        /\ (~Truthy(calc.rates_data) \/ InRates = <<>>) => Metrics = <<>>

\* a series whose keys came in descending order, all of them quoted
C13_Witness ==
    /\ calc.pc = "daily"
    /\ Len(InRates) = MaxDates
    /\ Len(Metrics) = MaxDates
    /\ \A i \in 1..(Len(InRates) - 1) : Before(InRates[i + 1].date, InRates[i].date)

\* C14: calculate_totals on an empty metrics sequence returns all four
\* fields absent and raises nothing; on a non-empty sequence start_rate is
\* the first metric's rate, end_rate the last metric's rate,
\* total_pct_change the percentage change from start_rate to end_rate
\* (rounded to 4 places) and mean_rate the arithmetic mean of all emitted
\* rates (rounded to 6 places).
C14_Totals ==
    TotalsDone =>
        LET tt == calc.totals.totals
            first == Metrics[1].rate
            final == Metrics[Len(Metrics)].rate
        IN  /\ calc.totals.exc = "none"
            /\ Metrics = <<>> =>
                 /\ ~tt.start_rate.some
                 /\ ~tt.end_rate.some
                 /\ ~tt.total_pct_change.some
                 /\ ~tt.mean_rate.some
            /\ Metrics # <<>> =>
                 /\ tt.start_rate = Some(first)
                 /\ tt.end_rate = Some(final)
                 /\ tt.total_pct_change.some <=> first # 0
                 /\ first # 0 =>
                      Nearest(tt.total_pct_change.v,
                              (final - first) * 1000000, first)
                 /\ tt.mean_rate.some
                 /\ Nearest(tt.mean_rate.v, SumRates(Metrics, 1), Len(Metrics))

\* three metrics whose middle rate pulls the mean away from the midpoint of
\* the first and the last
C14_Witness ==
    /\ calc.pc = "totals"
    /\ Len(Metrics) = 3
    /\ calc.totals.totals.total_pct_change.some
    /\ 2 * Metrics[2].rate > Metrics[1].rate + Metrics[3].rate + 2
    /\ 2 * calc.totals.totals.mean_rate.v > Metrics[1].rate + Metrics[3].rate

\* C15: format_response always includes the totals; with breakdown "day"
\* the output holds the full daily sequence, unchanged and in order; with
\* breakdown "none" it has no 'daily' key at all, however many daily metrics
\* there are.
C15_ReportShape ==
    calc.pc = "report" =>
        /\ "totals" \in calc.report.keys
        /\ calc.report.totals = calc.totals.totals
        /\ calc.breakdown = "day" =>
             /\ "daily" \in calc.report.keys
             /\ calc.report.daily = Metrics
        /\ calc.breakdown = "none" => "daily" \notin calc.report.keys

\* a report without breakdown over several daily metrics
C15_Witness ==
    /\ calc.pc = "report"
    /\ calc.breakdown = "none"
    /\ Len(Metrics) >= 2
    /\ "daily" \notin calc.report.keys
    /\ calc.report.totals.mean_rate.some

(***************************************************************************)
(* The client again (Spec).                                                *)
(***************************************************************************)
\* the lookup of this step finds an entry younger than the TTL under key
FreshEntry(key) == key \in DOMAIN cache /\ now - cache[key].ts < TTL

\* C16: each get_range or get_latest invocation issues at most one upstream
\* request (one when it suspends, none when it resumes, whatever the
\* failure) and none on a cache hit; the fallback snapshot is loaded only in
\* an invocation whose own upstream request failed, never on a cache hit or
\* after an upstream success.
C16_OneRequestNoneOnHit ==
    [][/\ requests' # requests => \E t \in Tasks : Missed(t)
       /\ \A t \in Tasks :
            /\ Missed(t) =>
                 /\ requests' = requests + 1
                 /\ ~FreshEntry(task'[t].key)
            /\ Resumed(t) =>
                 /\ requests' = requests
                 /\ last'.issued = 1
                 /\ last'.loaded <=> last'.upstream \in UpstreamErrors
       /\ ServedFromCache =>
            /\ requests' = requests
            /\ last'.issued = 0
            /\ ~last'.loaded]_vars

\* C17: every get_range/get_latest invocation eventually completes, either
\* returning a series or failing with DataUnavailable (ValueError): the
\* upstream request is the only suspension, the timeout ends it with the
\* fallback path, and no invocation waits for another one.
C17_EventuallyCompletes ==
    /\ \A t \in Tasks : (task[t].pc = "awaiting") ~> (task[t].pc = "idle")
    /\ [](last.looked => last.ret.exc \in {"none", "ValueError"})

\* an invocation ended by the timeout while another one is still suspended
C17_Witness ==
    /\ last.upstream = "timeout"
    /\ last.loaded
    /\ \E t \in Tasks : task[t].pc = "awaiting"

\* C19: fallback data never enters the cache.  The step that ends an
\* invocation whose upstream request failed leaves the cache as it is (no
\* entry created or refreshed), so a lookup that finds no entry, such as the
\* next one with the same parameters, issues an upstream request; and an
\* entry appears only in the step of a successful upstream fetch.
C19_FallbackNeverCached ==
    [][/\ \A t \in Tasks :
            (Resumed(t) /\ last'.upstream \in UpstreamErrors) =>
                /\ last'.loaded
                /\ cache' = cache
       /\ calls' = calls + 1 =>
            \/ ServedFromCache /\ last'.key \in DOMAIN cache
            \/ \E t \in Tasks : Missed(t) /\ requests' = requests + 1
       /\ ~(DOMAIN cache' \subseteq DOMAIN cache) =>
            \E t \in Tasks : Resumed(t) /\ last'.upstream = "ok"]_vars

\* an invocation has returned the snapshot after its upstream request
\* failed, its key has no entry, and an invocation for the same key is
\* suspended on an upstream request of its own
C19_Witness ==
    /\ last.upstream \in UpstreamErrors
    /\ last.ret = Returned(DocSample)
    /\ last.key \notin DOMAIN cache
    /\ requests = 2
    /\ \E t \in Tasks : task[t].pc = "awaiting" /\ task[t].key = last.key

\* C20: an entry's age is counted from its most recent store, not from the
\* moment the upstream request was issued.  The store of a successful fetch
\* puts the body and the time of the store under the key whether or not an
\* entry is there; a timestamp changes in no other step; and a lookup is
\* served only from an entry stored less than the TTL ago, with the age the
\* last store gave it.  So a redundant store by a concurrent invocation
\* starts the TTL window again.
C20_AgeFromLastStore ==
    [][/\ \A t \in Tasks : (Resumed(t) /\ last'.upstream = "ok") =>
            /\ cache'[task[t].key].ts = now'
            /\ cache'[task[t].key].value = last'.body
            /\ last'.over = AgeOf(task[t].key)
       /\ \A k \in DOMAIN cache \cap DOMAIN cache' :
            cache'[k].ts # cache[k].ts =>
                \E t \in Tasks :
                    Resumed(t) /\ task[t].key = k /\ last'.upstream = "ok"
       /\ ServedFromCache =>
            /\ last'.age = now - cache'[last'.key].ts
            /\ last'.age < TTL]_vars

\* an invocation that found no entry at its lookup has stored its body over
\* an entry that was at least one clock unit old: the entry is as new as
\* this store, later than the issue of the request and than the first store
C20_Witness ==
    /\ last.upstream = "ok"
    /\ last.age = -1
    /\ last.over >= 1
    /\ cache[last.key] = [ts |-> now, value |-> last.body]

(***************************************************************************)
(* The cache (SpecCache).                                                  *)
(***************************************************************************)
\* the operation of this step
GetStep(key) == Completed /\ last'.op = "get" /\ last'.key = key
SetStep(key) == Completed /\ last'.op = "set" /\ last'.key = key
ClearStep == Completed /\ last'.op = "clear"

\* the entry under key is the same before and after the step
Kept(key) == key \in DOMAIN cache' /\ cache'[key] = cache[key]

\* C18: eviction is lazy and per key.  A get on k changes at most the entry
\* for k, removing it only when it is expired, and leaves every other entry
\* as it is; an entry, expired or not, goes or changes only by a get on its
\* own key, a set on its key or clear() (never by the passing of time); and
\* after clear() the store is empty, where every get returns absent and
\* only a set creates an entry.
C18_LazyPerKeyEviction ==
    [][/\ \A k \in CacheKeys :
            /\ GetStep(k) =>
                 /\ \A j \in DOMAIN cache \ {k} : Kept(j)
                 /\ DOMAIN cache' \subseteq DOMAIN cache
                 /\ k \in DOMAIN cache =>
                      IF now - cache[k].ts >= TTL
                      THEN k \notin DOMAIN cache' /\ last'.seen = None
                      ELSE Kept(k) /\ last'.seen = cache[k].value
                 /\ k \notin DOMAIN cache => last'.seen = None
            /\ (k \in DOMAIN cache /\ ~Kept(k)) =>
                 GetStep(k) \/ SetStep(k) \/ ClearStep
            /\ (k \in DOMAIN cache' /\ k \notin DOMAIN cache) => SetStep(k)
       /\ ClearStep => cache' = EmptyCache]_vars

\* a get on one key has left the expired entry of another key in the store
C18_Witness ==
    /\ last.op = "get"
    /\ \E k \in DOMAIN cache : k # last.key /\ now - cache[k].ts >= TTL

=============================================================================
